---- MODULE Spec2Model ----
(***************************************************************************)
(* The "none" thermophysical function, its run-time selection table entry  *)
(* and the property set (IDEA liquid) whose slots it can fill.             *)
(*                                                                         *)
(*   noneThermophysicalFunction.C  registration, constructor, f, write     *)
(*   IDEA.H                        the 13 slots, clone, write, and the     *)
(*                                 documented blend (30% / 70%) constants  *)
(*                                                                         *)
(* Temperatures are in mK (1 K = 1000), molecular weights in 1e-4 kg/kmol, *)
(* volumes in 1e-3 m^3/kmol, so that the documented decimals are integers. *)
(***************************************************************************)
EXTENDS Integers, Sequences, FiniteSets, TLC

VARIABLES
    pc,               \* "static" | "main" | "exited"
    pending,          \* translation units whose static initialiser has not run
    table,            \* run-time selection table: type name -> registering unit
    throwExceptions,  \* FatalError throws to the caller instead of exiting
    fatal,            \* the error that ended the process, or NoError
    cfgName,          \* name of the configuration record given to the constructor
    pset,             \* the property set built from configuration, or NoSet
    sink,             \* what write(os) put on the stream, or NoSink
    reread,           \* the property set re-created from sink, or NoSet
    cloned,           \* the property set returned by clone(), or NoSet
    last,             \* the last f(p, T) call and what the caller got, or NoCall
    fitT,             \* refit: the temperature sampled last (mK)
    srcPc,            \* blend: the two sources' critical pressures
    srcVc,            \* blend: the two sources' critical volumes
    blend             \* blend: the scalars fixed so far

vars == <<pc, pending, table, throwExceptions, fatal, cfgName, pset,
          sink, reread, cloned, last, fitT, srcPc, srcVc, blend>>

progVars == <<pc, pending, table, throwExceptions, fatal, cfgName, pset,
              sink, reread, cloned, last>>

fitVars == <<fitT, srcPc, srcVc, blend>>

(***************************************************************************)
(* Bounds of the model                                                     *)
(***************************************************************************)
MaxMissing == 2      \* slots a configuration record may leave out
MaxP == 1            \* pressures sampled: 1..MaxP
MaxT == 2            \* temperatures sampled: 1..MaxT
MaxStepK == 3        \* refit: largest distance between two samples, in K

Pressures == 1..MaxP
Temps == 1..MaxT
MaterialNames == {"IDEA", "fuelB"}
CoeffChoices == {<<1, -20>>, <<3, 0, 105>>}

(***************************************************************************)
(* IDEA.H: the slots and the correlation family bound to each              *)
(***************************************************************************)
Slots == <<"rho", "pv", "hl", "Cp", "h", "Cpg", "B", "mu", "mug", "kappa",
           "kappag", "sigma", "D">>

SlotSet == {Slots[i] : i \in 1..Len(Slots)}

IDEASlotType ==
    [rho |-> "NSRDS5", pv |-> "NSRDS1", hl |-> "NSRDS6", Cp |-> "NSRDS0",
     h |-> "NSRDS0", Cpg |-> "NSRDS7", B |-> "NSRDS4", mu |-> "NSRDS1",
     mug |-> "NSRDS2", kappa |-> "NSRDS0", kappag |-> "NSRDS2",
     sigma |-> "NSRDS6", D |-> "APIdiffCoef"]

Families == {IDEASlotType[s] : s \in SlotSet}

(***************************************************************************)
(* noneThermophysicalFunction.C: type name and registration                *)
(***************************************************************************)
\* defineTypeNameAndDebug(none, 0)
noneTypeName == "none"

NoneUnit == "noneThermophysicalFunction.C"

\* addToRunTimeSelectionTable(thermophysicalFunction, none, dictionary)
NoneRegistration == [unit |-> NoneUnit, name |-> noneTypeName]

\* One self-registering translation unit per correlation family IDEA.H includes.
FamilyRegistrations == {[unit |-> f, name |-> f] : f \in Families}

StaticUnits == {NoneRegistration} \cup FamilyRegistrations

NoError == [error |-> "", name |-> ""]

\* The selection table after a (name, constructor) pair has been added under
\* a name not yet in it.
insert(tbl, name, unit) ==
    [n \in DOMAIN tbl \cup {name} |-> IF n = name THEN unit ELSE tbl[n]]

(***************************************************************************)
(* noneThermophysicalFunction.C: constructor, f, write.  A member function *)
(* is the object after the call together with what the call produced.      *)
(***************************************************************************)
none_ctor_FailsEagerly(dict) ==
    [ok |-> FALSE,
     err |-> [error |-> "UndefinedFunction", name |-> dict.name],
     self |-> [type |-> noneTypeName, coeffs |-> <<>>, dictName |-> dict.name]]

\* none::none(const dictionary& dict) : dictName_(dict.name()) {}
none_ctor(dict) ==
    [ok |-> TRUE,
     err |-> NoError,
     self |-> [type |-> noneTypeName, coeffs |-> <<>>, dictName |-> dict.name]]

none_f_ReturnsZero(self, p, T) ==
    [self |-> self,
     out |-> [error |-> "", name |-> "", returned |-> TRUE, value |-> 0]]

none_f_ReportsTypeName(self, p, T) ==
    [self |-> self,
     out |-> [error |-> "UndefinedFunction", name |-> self.type,
              returned |-> FALSE, value |-> 0]]

none_f_ClearsName(self, p, T) ==
    [self |-> [self EXCEPT !.dictName = ""],
     out |-> [error |-> "UndefinedFunction", name |-> self.dictName,
              returned |-> FALSE, value |-> 0]]

\* none::f(scalar p, scalar T) const: FatalErrorInFunction << "Required
\* Function" << dictName_ << "is not defined." << exit(FatalError) leaves the
\* function without returning; the "return 0" after it is never reached.
none_f(self, p, T) ==
    [self |-> self,
     out |-> [error |-> "UndefinedFunction", name |-> self.dictName,
              returned |-> FALSE, value |-> 0]]

(***************************************************************************)
(* Text on the stream: a number is written as its decimal digits and read  *)
(* back from them.                                                         *)
(***************************************************************************)
DigitChars == <<"0", "1", "2", "3", "4", "5", "6", "7", "8", "9">>

RECURSIVE Digits(_)
Digits(n) ==
    IF n < 10 THEN <<DigitChars[n + 1]>>
    ELSE Append(Digits(n \div 10), DigitChars[(n % 10) + 1])

FormatNum_DropsSign(n) ==
    IF n < 0 THEN Digits(-n) ELSE Digits(n)

FormatNum(n) ==
    IF n < 0 THEN <<"-">> \o Digits(-n) ELSE Digits(n)

DigitValue(c) == CHOOSE d \in 0..9 : DigitChars[d + 1] = c

RECURSIVE ParseDigits(_)
ParseDigits(cs) ==
    IF cs = <<>> THEN 0
    ELSE 10 * ParseDigits(SubSeq(cs, 1, Len(cs) - 1)) + DigitValue(cs[Len(cs)])

ParseNum(cs) ==
    IF cs # <<>> /\ Head(cs) = "-" THEN -ParseDigits(Tail(cs))
    ELSE ParseDigits(cs)

Word(w) == [t |-> "word", w |-> w, text |-> <<>>]
Num(n) == [t |-> "num", w |-> "", text |-> FormatNum(n)]

none_write_WritesType(self, os) ==
    [self |-> self, os |-> Append(os, Word(self.type))]

\* none::write(Ostream& os) const {}
none_write(self, os) ==
    [self |-> self, os |-> os]

(***************************************************************************)
(* The other correlation families (one polynomial in T stands for them)    *)
(***************************************************************************)
RECURSIVE Horner(_, _)
Horner(coeffs, T) ==
    IF coeffs = <<>> THEN 0
    ELSE Head(coeffs) + T * Horner(Tail(coeffs), T)

real_ctor(typeName, entry) ==
    [ok |-> TRUE,
     err |-> NoError,
     self |-> [type |-> typeName, coeffs |-> entry.coeffs, dictName |-> ""]]

\* The reduced-temperature family takes the critical temperature as its
\* first coefficient and has no value at or above it.
ReducedTempFamily == "NSRDS6"

reduced_f(self, p, T) ==
    LET Tc == IF self.coeffs = <<>> THEN 0 ELSE Head(self.coeffs) IN
    IF T >= Tc
    THEN [self |-> self,
          out |-> [error |-> "DomainError", name |-> self.type,
                   returned |-> FALSE, value |-> 0]]
    ELSE [self |-> self,
          out |-> [error |-> "", name |-> "", returned |-> TRUE,
                   value |-> Horner(Tail(self.coeffs), Tc - T)]]

polynomial_f(self, p, T) ==
    [self |-> self,
     out |-> [error |-> "", name |-> "", returned |-> TRUE,
              value |-> Horner(self.coeffs, T)]]

real_f(self, p, T) ==
    IF self.type = ReducedTempFamily THEN reduced_f(self, p, T)
    ELSE polynomial_f(self, p, T)

real_write(self, os) ==
    [self |-> self,
     os |-> os \o <<Word(self.type)>>
               \o [i \in 1..Len(self.coeffs) |-> Num(self.coeffs[i])]]

\* Virtual dispatch on the dynamic type of the bound function.
fn_f(self, p, T) ==
    IF self.type = noneTypeName THEN none_f(self, p, T) ELSE real_f(self, p, T)

fn_write(self, os) ==
    IF self.type = noneTypeName THEN none_write(self, os)
    ELSE real_write(self, os)

(***************************************************************************)
(* Construction from a configuration record                                *)
(***************************************************************************)
\* thermophysicalFunction::New: a configured slot is built by the constructor
\* registered under its type name, a missing slot is bound to none.
New(tbl, slot, dict) ==
    IF slot \in DOMAIN dict.entries
    THEN LET e == dict.entries[slot] IN
         IF e.typeName \notin DOMAIN tbl
         THEN [ok |-> FALSE,
               err |-> [error |-> "UnknownCorrelationType", name |-> e.typeName],
               self |-> [type |-> "", coeffs |-> <<>>, dictName |-> ""]]
         ELSE IF tbl[e.typeName] = NoneUnit THEN none_ctor(dict)
         ELSE real_ctor(e.typeName, e)
    ELSE none_ctor(dict)

NoSet == [name |-> "", slots |-> <<>>]

\* The property set's constructor from a dictionary: every slot through New,
\* in declaration order; the first failure is the constructor's failure.
PSet_ctor(tbl, dict) ==
    LET built == [s \in SlotSet |-> New(tbl, s, dict)]
        bad == {i \in 1..Len(Slots) : ~built[Slots[i]].ok}
    IN  IF bad = {}
        THEN [ok |-> TRUE, err |-> NoError,
              self |-> [name |-> dict.name,
                        slots |-> [s \in SlotSet |-> built[s].self]]]
        ELSE [ok |-> FALSE,
              err |-> built[Slots[CHOOSE i \in bad : \A j \in bad : i <= j]].err,
              self |-> NoSet]

(***************************************************************************)
(* IDEA.H: clone and write                                                 *)
(***************************************************************************)
\* virtual autoPtr<liquidProperties> clone() const { new IDEA(*this) }
clone(self) ==
    [self |-> self, copy |-> self]

\* write(os): each slot's function writes itself, in declaration order; what a
\* slot wrote becomes that slot's entry of the record.
RECURSIVE WriteSlots(_, _, _)
WriteSlots(self, i, os) ==
    IF i > Len(Slots) THEN [self |-> self, os |-> os]
    ELSE LET s == Slots[i]
             r == fn_write(self.slots[s], <<>>)
             after == [self EXCEPT !.slots[s] = r.self]
         IN  WriteSlots(after, i + 1,
                        IF r.os = <<>> THEN os
                        ELSE Append(os, [slot |-> s, body |-> r.os]))

PSet_write(self, os) ==
    WriteSlots(self, 1, os)

NoSink == [name |-> "", entries |-> <<>>]

\* Reading the written record back into a configuration record: the first
\* token of an entry is its type name, the numbers after it, parsed from
\* their digits, its coefficients.
ParseEntry(body) ==
    LET typed == body # <<>> /\ body[1].t = "word"
        rest == IF typed THEN Tail(body) ELSE body
    IN  [typeName |-> IF typed THEN body[1].w ELSE "",
         coeffs |-> [i \in 1..Len(rest) |-> ParseNum(rest[i].text)]]

ParseSink(snk) ==
    LET idx(s) == CHOOSE i \in 1..Len(snk.entries) : snk.entries[i].slot = s
        present == {snk.entries[i].slot : i \in 1..Len(snk.entries)}
    IN  [name |-> snk.name,
         entries |-> [s \in present |-> ParseEntry(snk.entries[idx(s)].body)]]

(***************************************************************************)
(* IDEA.H, class description: the blend and the refit interval             *)
(***************************************************************************)
NaphFrac == 3            \* 30% alphaMethylNaphthalene
DecaneFrac == 7          \* 70% n-decane
FracDen == 10

DecaneTmin == 243510     \* valid range of n-decane: 243.51 - 617.70 K
DecaneTmax == 617700
NaphTmin == 242670       \* valid range of the naphthalene: 242.67 - 772.04 K
NaphTmax == 772040
FitTlo == 244000         \* least square fit interval: 244 - 617 K

FitThi_AsNaphMax == NaphTmax

FitThi == 617000

RhoFitC == 618074        \* the 'c'-value in the rho-equation
NaphW == 1422000         \* molecular weights 142.20 and 142.285
DecaneW == 1422850
IDEA_W == 1422600        \* "for the IDEA fuel it is thus 142.26"
NaphVc == 523            \* "the lowest one (naphthalene) 0.523 m^3/kmol"
WRound == 100            \* the molecular weight is given to 0.01

Min(a, b) == IF a <= b THEN a ELSE b
Max(a, b) == IF a >= b THEN a ELSE b

\* Ten times the 30/70 average, which is exact in integers.
WeightedSum(naph, decane) == NaphFrac * naph + DecaneFrac * decane

RoundTo(x, q) == ((2 * x + q) \div (2 * q)) * q

\* "approximately 0.3*142.2 + 0.7*142.285"
Blend_W(naph, decane) ==
    RoundTo(WeightedSum(naph, decane) \div FracDen, WRound)

\* "The critical temperature was taken to be 618.074 K, since this is the
\* 'c'-value in the rho-equation"
Blend_Tc(naph, decane) == RhoFitC

Blend_Pc_Highest(naph, decane) == Max(naph, decane)

\* "Critical pressure was set to the lowest one (n-Decane)"
Blend_Pc(naph, decane) == Min(naph, decane)

\* "Critical volume... also the lowest one (naphthalene)"
Blend_Vc(naph, decane) == Min(naph, decane)

IDEA_Tc == Blend_Tc(NaphTmax, DecaneTmax)

Scalars == {"W", "Tc", "Pc", "Vc"}

\* The two sources' value of a scalar; a liquid's valid range ends at its
\* critical temperature.
SourceOf(k) ==
    CASE k = "W" -> [naph |-> NaphW, decane |-> DecaneW]
      [] k = "Tc" -> [naph |-> NaphTmax, decane |-> DecaneTmax]
      [] k = "Pc" -> srcPc
      [] k = "Vc" -> srcVc

BlendOf(k) ==
    CASE k = "W" -> Blend_W(NaphW, DecaneW)
      [] k = "Tc" -> Blend_Tc(NaphTmax, DecaneTmax)
      [] k = "Pc" -> Blend_Pc(srcPc.naph, srcPc.decane)
      [] k = "Vc" -> Blend_Vc(srcVc.naph, srcVc.decane)

\* The refit samples the blended curve from FitTlo upwards, never past FitThi.
NextSampleT(T, stepK) == T + stepK * 1000

CanSample_Overshoot(T, stepK) == T < FitThi

CanSample(T, stepK) == NextSampleT(T, stepK) <= FitThi

\* The slots fitted with the reduced-temperature form, which needs T < Tc.
ReducedTempSlots == {s \in SlotSet : IDEASlotType[s] = "NSRDS6"}

(***************************************************************************)
(* Inputs                                                                  *)
(***************************************************************************)
\* The slots the sampled records leave out: viscosity, surface tension and
\* diffusivity, in every combination of at most MaxMissing.
OptionalSlots == {"mu", "sigma", "D"}

MissingChoices == {m \in SUBSET OptionalSlots : Cardinality(m) <= MaxMissing}

\* A configuration record: the material's name and, for every slot it
\* configures, the type name and the coefficients.
Configs ==
    {[name |-> n,
      entries |-> [s \in SlotSet \ m |->
                      [typeName |-> IDEASlotType[s], coeffs |-> c]]] :
        n \in MaterialNames, m \in MissingChoices, c \in CoeffChoices}

NoFn == [type |-> "", coeffs |-> <<>>, dictName |-> ""]
NoOut == [error |-> "", name |-> "", returned |-> FALSE, value |-> 0]
NoCall == [fn |-> NoFn, p |-> 0, T |-> 0, out |-> NoOut]

PcChoices == {2110, 3600}
VcChoices == {NaphVc, 600, 624}

ProgInit ==
    /\ pc = "static"
    /\ pending = StaticUnits
    /\ table = <<>>
    /\ throwExceptions \in BOOLEAN
    /\ fatal = NoError
    /\ cfgName = ""
    /\ pset = NoSet
    /\ sink = NoSink
    /\ reread = NoSet
    /\ cloned = NoSet
    /\ last = NoCall

FitStart ==
    /\ fitT = FitTlo
    /\ blend = <<>>

Init ==
    /\ ProgInit
    /\ FitStart
    /\ srcPc = [naph |-> 3600, decane |-> 2110]
    /\ srcVc = [naph |-> NaphVc, decane |-> 600]

(***************************************************************************)
(* Actions of the program                                                  *)
(***************************************************************************)
\* exit(FatalError): the error is thrown to the caller when exceptions are
\* switched on, and ends the process otherwise.
Raise(err) ==
    IF throwExceptions
    THEN UNCHANGED <<pc, fatal>>
    ELSE pc' = "exited" /\ fatal' = err

\* Static initialisation of one translation unit, in no particular order.
\* The units linked register distinct names; a second registration of a name
\* is outside this model.
Register(u) ==
    /\ pc = "static"
    /\ u \in pending
    /\ u.name \notin DOMAIN table
    /\ pending' = pending \ {u}
    /\ table' = insert(table, u.name, u.unit)
    /\ UNCHANGED <<pc, throwExceptions, fatal, cfgName, pset, sink, reread,
                   cloned, last>>

StartMain ==
    /\ pc = "static"
    /\ pending = {}
    /\ pc' = "main"
    /\ UNCHANGED <<pending, table, throwExceptions, fatal, cfgName,
                   pset, sink, reread, cloned, last>>

Construct(cfg) ==
    /\ pc = "main"
    /\ pset = NoSet
    /\ cfgName = ""
    /\ cfgName' = cfg.name
    /\ LET r == PSet_ctor(table, cfg) IN
         IF r.ok
         THEN pset' = r.self /\ UNCHANGED <<pc, fatal>>
         ELSE Raise(r.err) /\ UNCHANGED pset
    /\ UNCHANGED <<pending, table, throwExceptions, sink, reread,
                   cloned, last>>

Target(tgt) ==
    CASE tgt = "pset" -> pset
      [] tgt = "reread" -> reread
      [] tgt = "cloned" -> cloned

\* A caller evaluates one slot of one property set at (p, T).
Evaluate(tgt, s, p, T) ==
    /\ pc = "main"
    /\ Target(tgt) # NoSet
    /\ LET obj == Target(tgt)
           r == fn_f(obj.slots[s], p, T)
           after == [obj EXCEPT !.slots[s] = r.self]
       IN  /\ last' = [fn |-> obj.slots[s], p |-> p, T |-> T, out |-> r.out]
           /\ pset' = IF tgt = "pset" THEN after ELSE pset
           /\ reread' = IF tgt = "reread" THEN after ELSE reread
           /\ cloned' = IF tgt = "cloned" THEN after ELSE cloned
           /\ IF r.out.error # ""
              THEN Raise([error |-> r.out.error, name |-> r.out.name])
              ELSE UNCHANGED <<pc, fatal>>
    /\ UNCHANGED <<pending, table, throwExceptions, cfgName, sink>>

Write ==
    /\ pc = "main"
    /\ pset # NoSet
    /\ LET r == PSet_write(pset, <<>>) IN
         /\ sink' = [name |-> pset.name, entries |-> r.os]
         /\ pset' = r.self
    /\ UNCHANGED <<pc, pending, table, throwExceptions, fatal, cfgName,
                   reread, cloned, last>>

ReCreate ==
    /\ pc = "main"
    /\ sink # NoSink
    /\ reread = NoSet
    /\ LET r == PSet_ctor(table, ParseSink(sink)) IN
         IF r.ok
         THEN reread' = r.self /\ UNCHANGED <<pc, fatal>>
         ELSE Raise(r.err) /\ UNCHANGED reread
    /\ UNCHANGED <<pending, table, throwExceptions, cfgName, pset,
                   sink, cloned, last>>

Clone ==
    /\ pc = "main"
    /\ pset # NoSet
    /\ LET r == clone(pset) IN
         /\ cloned' = r.copy
         /\ pset' = r.self
    /\ UNCHANGED <<pc, pending, table, throwExceptions, fatal, cfgName,
                   sink, reread, last>>

Next ==
    \/ \E u \in StaticUnits : Register(u) /\ UNCHANGED fitVars
    \/ StartMain /\ UNCHANGED fitVars
    \/ \E cfg \in Configs : Construct(cfg) /\ UNCHANGED fitVars
    \/ \E tgt \in {"pset", "reread", "cloned"}, s \in SlotSet,
          p \in Pressures, T \in Temps :
            Evaluate(tgt, s, p, T) /\ UNCHANGED fitVars
    \/ Write /\ UNCHANGED fitVars
    \/ ReCreate /\ UNCHANGED fitVars
    \/ Clone /\ UNCHANGED fitVars

Spec == Init /\ [][Next]_vars

(***************************************************************************)
(* The blend as the class description gives it                             *)
(***************************************************************************)
FitInit ==
    /\ ProgInit
    /\ throwExceptions = FALSE
    /\ FitStart
    /\ srcPc \in {r \in [naph : PcChoices, decane : PcChoices] :
                     r.decane <= r.naph}
    /\ srcVc \in {[naph |-> NaphVc, decane |-> d] : d \in VcChoices}

BlendScalar(k) ==
    /\ k \notin DOMAIN blend
    /\ blend' = [x \in DOMAIN blend \cup {k} |->
                    IF x = k THEN BlendOf(k) ELSE blend[x]]
    /\ UNCHANGED <<fitT, srcPc, srcVc>>

Sample(stepK) ==
    /\ CanSample(fitT, stepK)
    /\ fitT' = NextSampleT(fitT, stepK)
    /\ UNCHANGED <<srcPc, srcVc, blend>>

FitNext ==
    \/ \E k \in Scalars : BlendScalar(k) /\ UNCHANGED progVars
    \/ \E stepK \in 1..MaxStepK : Sample(stepK) /\ UNCHANGED progVars

FitSpec == FitInit /\ [][FitNext]_vars

(***************************************************************************)
(* Properties                                                              *)
(***************************************************************************)
NoneSlots(obj) == {s \in SlotSet : obj.slots[s].type = noneTypeName}

NoneEvaluated == last # NoCall /\ last.fn.type = noneTypeName

EntriesFor(s) ==
    {i \in 1..Len(sink.entries) : sink.entries[i].slot = s}

\* What the configuration shape asks of a slot's entry: the type name first,
\* then the coefficients in their declared order.
ShapeOf(fn) ==
    <<Word(fn.type)>> \o [i \in 1..Len(fn.coeffs) |-> Num(fn.coeffs[i])]

\* C1: every evaluation f(p, T) of a "none" function ends in the
\* undefined-function fatal error and hands no value (not the trailing 0)
\* back to the caller; without exceptions the process ends there.
C1_NoneAlwaysFails ==
    NoneEvaluated =>
        /\ last.out.error = "UndefinedFunction"
        /\ ~last.out.returned
        /\ ~throwExceptions =>
               pc = "exited" /\ fatal.error = "UndefinedFunction"

C1_Witness ==
    /\ NoneEvaluated
    /\ last.p = MaxP
    /\ last.T = MaxT
    /\ pc = "exited"

\* C2: building a property set whose record leaves slots out succeeds, and
\* an undefined-function error is only ever raised by evaluating a "none"
\* slot: none before the first evaluation.
C2_FailsOnUseNotOnConstruction ==
    /\ fatal.error = "UndefinedFunction" => NoneEvaluated
    /\ last.out.error = "UndefinedFunction" => NoneEvaluated
    /\ (cfgName # "" /\ last = NoCall) =>
           /\ pset # NoSet
           /\ fatal = NoError
           /\ pc = "main"

C2_Witness ==
    /\ pset # NoSet
    /\ NoneSlots(pset) # {}
    /\ reread # NoSet
    /\ last = NoCall
    /\ fatal = NoError

\* C3: the error of an evaluated "none" function names the material: the name
\* it reports is the name of the configuration record it was built from,
\* whatever was called in between.
C3_ErrorCarriesMaterialName ==
    NoneEvaluated =>
        /\ last.out.name = cfgName
        /\ last.out.name \in MaterialNames
        /\ last.fn.dictName = cfgName

C3_Witness ==
    /\ NoneEvaluated
    /\ sink # NoSink
    /\ reread # NoSet
    /\ cloned # NoSet
    /\ last.out.name = "fuelB"

\* C4 as claimed: write puts the type name and the coefficients of every
\* slot on the stream, a slot bound to "none" included.
C4_WritesEverySlot ==
    sink # NoSink =>
        \A s \in SlotSet :
            \E i \in EntriesFor(s) : sink.entries[i].body = ShapeOf(pset.slots[s])

\* C4 amended: write puts the type name and the coefficients of every slot
\* bound to a real correlation on the stream, once each and in the
\* configuration shape; a slot bound to "none" writes nothing, so the written
\* record has no entry for it.
C4_WritesEveryDefinedSlot ==
    sink # NoSink =>
        /\ sink.name = pset.name
        /\ \A s \in SlotSet :
               IF s \in NoneSlots(pset)
               THEN EntriesFor(s) = {}
               ELSE /\ Cardinality(EntriesFor(s)) = 1
                    /\ \A i \in EntriesFor(s) :
                           sink.entries[i].body = ShapeOf(pset.slots[s])

C4_Witness ==
    /\ sink # NoSink
    /\ Cardinality(NoneSlots(pset)) = MaxMissing
    /\ Len(sink.entries) = Len(Slots) - MaxMissing

C6_ReadOnlyAfterConstruction ==
    [][/\ pset # NoSet => pset' = pset
       /\ reread # NoSet => reread' = reread
       /\ cloned # NoSet => cloned' = cloned]_vars

C6_Witness ==
    /\ NoneEvaluated
    /\ sink # NoSink
    /\ cloned # NoSet
    /\ reread # NoSet
    /\ Cardinality(DOMAIN pset.slots) = 13
    /\ pc = "main"

(***************************************************************************)
(* Properties of the blend                                                 *)
(***************************************************************************)
OverlapLo == Max(DecaneTmin, NaphTmin)
OverlapHi == Min(DecaneTmax, NaphTmax)

\* Whether a blended value is the 30/70 average of the sources' values, to
\* the precision the description gives the molecular weight in.
IsAverage(k, v) ==
    2 * (FracDen * v - WeightedSum(SourceOf(k).naph, SourceOf(k).decane))
        \in (-(FracDen * WRound))..(FracDen * WRound)

IsLower(k, v) == v = Min(SourceOf(k).naph, SourceOf(k).decane)

\* C7 as claimed: every blended scalar is the 30/70 average of the two
\* sources' values or the lower of the two.
C7_AverageOrLower ==
    \A k \in DOMAIN blend : IsAverage(k, blend[k]) \/ IsLower(k, blend[k])

\* C7 amended: the molecular weight is the 30/70 average rounded to 0.01
\* (142.26), the critical pressure and the critical volume are the lower of
\* the two sources' values, and the critical temperature is neither: it is
\* the c coefficient of the refitted density equation, 618.074 K.
C7_BlendRules ==
    /\ "W" \in DOMAIN blend =>
           blend["W"] = IDEA_W /\ IsAverage("W", blend["W"])
    /\ "Pc" \in DOMAIN blend =>
           IsLower("Pc", blend["Pc"]) /\ blend["Pc"] = srcPc.decane
    /\ "Vc" \in DOMAIN blend =>
           IsLower("Vc", blend["Vc"]) /\ blend["Vc"] = NaphVc
    /\ "Tc" \in DOMAIN blend =>
           /\ blend["Tc"] = RhoFitC
           /\ ~IsAverage("Tc", blend["Tc"])
           /\ ~IsLower("Tc", blend["Tc"])

C7_Witness ==
    /\ DOMAIN blend = Scalars
    /\ srcPc.naph # srcPc.decane
    /\ srcVc.naph # srcVc.decane

\* C8: the refit interval [244, 617] K lies inside the overlap of the two
\* sources' valid ranges, [243.51, 617.70] K and [242.67, 772.04] K, and so
\* does every temperature the refit samples.
C8_FitInsideOverlap ==
    /\ OverlapLo <= FitTlo
    /\ FitThi <= OverlapHi
    /\ fitT \in FitTlo..FitThi
    /\ fitT \in DecaneTmin..DecaneTmax
    /\ fitT \in NaphTmin..NaphTmax

C8_Witness ==
    /\ fitT = FitThi
    /\ blend = <<>>

\* C10: every temperature the refit samples, up to the end of the interval,
\* is strictly below the critical temperature adopted for the blend, so the
\* two NSRDS6 slots (heat of vapourisation, surface tension) are only sampled
\* where T < Tc.
C10_FitBelowTc ==
    /\ ReducedTempSlots = {"hl", "sigma"}
    /\ FitThi < IDEA_Tc
    /\ \A s \in ReducedTempSlots : fitT < IDEA_Tc
    /\ "Tc" \in DOMAIN blend => fitT < blend["Tc"]

C10_Witness ==
    /\ fitT = FitThi
    /\ "Tc" \in DOMAIN blend
    /\ blend["Tc"] = IDEA_Tc
====
